---------------------------- MODULE Spec2Model ----------------------------
(***************************************************************************)
(* Grab-and-Go (popup.js): the popup's Discord/copy handlers and the       *)
(* DOM-scraping pipeline getSystemData with its helpers.                   *)
(*                                                                         *)
(* Texts are sequences of one-character strings, so that trim, includes,   *)
(* toUpperCase, parseInt, isNaN and the two regular expressions are        *)
(* computed character by character.  The JavaScript value null is the      *)
(* one-element sequence Null, which no text equals.                        *)
(***************************************************************************)
EXTENDS Integers, Sequences, FiniteSets, TLC

\* ------------------------------------------------------------------------
\* Bounds of the model
\* ------------------------------------------------------------------------
MaxFragments == 3
MaxClicks == 3

\* ------------------------------------------------------------------------
\* JavaScript string primitives
\* ------------------------------------------------------------------------
Null == <<"null">>

Truthy(v) == v # Null /\ v # <<>>

Whitespace == {" ", "\n", "\t"}

DigitChars == <<"0","1","2","3","4","5","6","7","8","9">>

Digits == {DigitChars[k] : k \in 1..10}

LowerChars == <<"a","b","c","d","e","f","g","h","i","j","k","l","m","n","o","p","q","r","s","t","u","v","w","x","y","z">>

UpperChars == <<"A","B","C","D","E","F","G","H","I","J","K","L","M","N","O","P","Q","R","S","T","U","V","W","X","Y","Z">>

SetMin(S) == CHOOSE x \in S : \A y \in S : x <= y

SetMax(S) == CHOOSE x \in S : \A y \in S : y <= x

trim(s) ==
  LET ink == {k \in 1..Len(s) : s[k] \notin Whitespace}
  IN IF ink = {} THEN <<>> ELSE SubSeq(s, SetMin(ink), SetMax(ink))

trimStart(s) ==
  LET ink == {k \in 1..Len(s) : s[k] \notin Whitespace}
  IN IF ink = {} THEN <<>> ELSE SubSeq(s, SetMin(ink), Len(s))

includes(s, sub) ==
  \E k \in 0..(Len(s) - Len(sub)) : SubSeq(s, k + 1, k + Len(sub)) = sub

upperChar(c) ==
  IF \E k \in 1..26 : LowerChars[k] = c
  THEN UpperChars[CHOOSE k \in 1..26 : LowerChars[k] = c]
  ELSE c

lowerChar(c) ==
  IF \E k \in 1..26 : UpperChars[k] = c
  THEN LowerChars[CHOOSE k \in 1..26 : UpperChars[k] = c]
  ELSE c

toUpperCase(s) == [k \in 1..Len(s) |-> upperChar(s[k])]

toLowerCase(s) == [k \in 1..Len(s) |-> lowerChar(s[k])]

\* The number of digits s starts with.
LeadingDigits(s) ==
  IF \A k \in 1..Len(s) : s[k] \in Digits
  THEN Len(s)
  ELSE SetMin({k \in 1..Len(s) : s[k] \notin Digits}) - 1

DigitValue(c) == (CHOOSE k \in 1..10 : DigitChars[k] = c) - 1

RECURSIVE DecimalValue(_)
DecimalValue(s) ==
  IF s = <<>> THEN 0
  ELSE 10 * DecimalValue(SubSeq(s, 1, Len(s) - 1)) + DigitValue(s[Len(s)])

\* parseInt(text): leading white space is skipped, then an optional sign and
\* the longest run of decimal digits; NaN when there is no digit.  (A "0x"
\* prefix, which parseInt reads as hexadecimal, needs the letter x after a
\* zero; no text of the pages below has one.)
parseInt(s) ==
  LET t == trimStart(s)
      signed == t # <<>> /\ t[1] \in {"-", "+"}
      body == IF signed THEN Tail(t) ELSE t
      n == LeadingDigits(body)
      v == DecimalValue(SubSeq(body, 1, n))
  IN IF n = 0
     THEN [nan |-> TRUE, val |-> 0]
     ELSE [nan |-> FALSE, val |-> IF signed /\ t[1] = "-" THEN 0 - v ELSE v]

Infinity == <<"I","n","f","i","n","i","t","y">>

\* isNaN(text) of a string: Number(text) is NaN.  Number trims the text; the
\* empty text is 0; otherwise the whole text must be a numeric literal: an
\* optional sign, then "Infinity" or digits with at most one decimal point
\* and at least one digit.  (Exponent and 0x/0o/0b literals are not read.)
isNaN(s) ==
  LET t == trim(s)
      signed == t # <<>> /\ t[1] \in {"-", "+"}
      body == IF signed THEN Tail(t) ELSE t
      dots == {k \in 1..Len(body) : body[k] = "."}
      decimal == /\ \A k \in 1..Len(body) : body[k] \in Digits \cup {"."}
                 /\ Cardinality(dots) <= 1
                 /\ \E k \in 1..Len(body) : body[k] \in Digits
  IN IF t = <<>> THEN FALSE ELSE ~(body = Infinity \/ decimal)

DigitDotDigitAt(s, k) ==
  /\ k >= 1
  /\ k + 2 <= Len(s)
  /\ s[k] \in Digits
  /\ s[k + 1] = "."
  /\ s[k + 2] \in Digits

\* text.match(/-?\d\.\d/): the leftmost match, or null.
matchSecurity(s) ==
  LET at(k) == IF s[k] = "-" /\ DigitDotDigitAt(s, k + 1) THEN SubSeq(s, k, k + 3)
               ELSE IF DigitDotDigitAt(s, k) THEN SubSeq(s, k, k + 2)
               ELSE Null
      hits == {k \in 1..Len(s) : at(k) # Null}
  IN IF hits = {} THEN Null ELSE at(SetMin(hits))

\* text.match(/C[1-6]/): the leftmost match, or null.
matchConnection(s) ==
  LET hits == {k \in 1..(Len(s) - 1) :
                 s[k] = "C" /\ s[k + 1] \in {"1","2","3","4","5","6"}}
  IN IF hits = {} THEN Null ELSE SubSeq(s, SetMin(hits), SetMin(hits) + 1)

RECURSIVE join(_, _)
join(parts, sep) ==
  IF parts = <<>> THEN <<>>
  ELSE IF Len(parts) = 1 THEN parts[1]
  ELSE parts[1] \o sep \o join(Tail(parts), sep)


\* ------------------------------------------------------------------------
\* The host page's DOM
\*
\* A page is the sequence of its elements in document order.  An element
\* has a tag, a class attribute (its tokens), attributes (name, value), a
\* parent (an index of the page; 0 is <body>), its own text (placed before
\* its children's) and the two computed style values the code reads.
\* ------------------------------------------------------------------------
RECURSIVE Ancestors(_, _)
Ancestors(dom, i) ==
  IF dom[i].parent = 0 THEN {}
  ELSE {dom[i].parent} \cup Ancestors(dom, dom[i].parent)

Descendants(dom, i) == {j \in 1..Len(dom) : i \in Ancestors(dom, j)}

RECURSIVE inDocumentOrder(_)
inDocumentOrder(S) ==
  IF S = {} THEN <<>>
  ELSE <<SetMin(S)>> \o inDocumentOrder(S \ {SetMin(S)})

\* element.textContent: the texts of the element and its descendants in
\* document order.  Rendered pages carry it as a property of the element.
textContent(dom, i) == dom[i].textContent

hasAttribute(dom, i, name) == \E a \in dom[i].attrs : a[1] = name

attributeIs(dom, i, name, value) == <<name, value>> \in dom[i].attrs

classListContains(dom, i, token) ==
  \E k \in 1..Len(dom[i].class) : dom[i].class[k] = token

\* [class*="part"]: the class attribute holds part as a substring; part has
\* no white space, so it lies within one token.
classAttrContains(dom, i, part) ==
  \E k \in 1..Len(dom[i].class) : includes(dom[i].class[k], part)

hasAncestor(dom, i, P(_, _)) == \E a \in Ancestors(dom, i) : P(dom, a)

cls_route_hub_summary == <<"r","o","u","t","e","-","h","u","b","-","s","u","m","m","a","r","y">>

cls_system_type == <<"s","y","s","t","e","m","-","t","y","p","e">>

cls_MuiPaper_root == <<"M","u","i","P","a","p","e","r","-","r","o","o","t">>

cls_Mui_selected == <<"M","u","i","-","s","e","l","e","c","t","e","d">>

cls_active == <<"a","c","t","i","v","e">>

part_MuiAccordion == <<"M","u","i","A","c","c","o","r","d","i","o","n">>

part_Typography == <<"T","y","p","o","g","r","a","p","h","y">>

part_header == <<"h","e","a","d","e","r">>

part_system == <<"s","y","s","t","e","m">>

part_node == <<"n","o","d","e">>

part_panel == <<"p","a","n","e","l">>

isHeaderTag(dom, i) == dom[i].tag = "header"

isMainTag(dom, i) == dom[i].tag = "main"

isHeaderInMain(dom, i) == isHeaderTag(dom, i) /\ hasAncestor(dom, i, isMainTag)

isPaperRoot(dom, i) == classListContains(dom, i, cls_MuiPaper_root)

isHeaderInPaper(dom, i) == isHeaderTag(dom, i) /\ hasAncestor(dom, i, isPaperRoot)

isHeaderClass(dom, i) == classAttrContains(dom, i, part_header)

\* element.matches(selector), for the selectors of the code.
matches(dom, i, selector) ==
  CASE selector = "main header h6" ->
         dom[i].tag = "h6" /\ hasAncestor(dom, i, isHeaderInMain)
    [] selector = "header h6" ->
         dom[i].tag = "h6" /\ hasAncestor(dom, i, isHeaderTag)
    [] selector = ".MuiPaper-root header h6" ->
         dom[i].tag = "h6" /\ hasAncestor(dom, i, isHeaderInPaper)
    [] selector = "[class*=header] h6" ->
         dom[i].tag = "h6" /\ hasAncestor(dom, i, isHeaderClass)
    [] selector = "h6" -> dom[i].tag = "h6"
    [] selector = "[class*=node], [class*=system]" ->
         classAttrContains(dom, i, part_node) \/ classAttrContains(dom, i, part_system)
    [] selector = ".system-type, [class*=system-type]" ->
         classListContains(dom, i, cls_system_type)
           \/ classAttrContains(dom, i, cls_system_type)
    [] selector = "main header, header" ->
         isHeaderInMain(dom, i) \/ isHeaderTag(dom, i)
    [] selector = "button, [role=tab]" ->
         dom[i].tag = "button" \/ attributeIs(dom, i, "role", "tab")
    [] selector = "p, span, [class*=Typography]" ->
         dom[i].tag \in {"p", "span"} \/ classAttrContains(dom, i, part_Typography)
    [] selector = ".route-hub-summary, [class*=route-hub-summary]" ->
         classListContains(dom, i, cls_route_hub_summary)
           \/ classAttrContains(dom, i, cls_route_hub_summary)
    [] selector = "[class*=MuiAccordion]" ->
         classAttrContains(dom, i, part_MuiAccordion)
    [] selector = "[role=tabpanel], [class*=panel]" ->
         attributeIs(dom, i, "role", "tabpanel") \/ classAttrContains(dom, i, part_panel)
    [] selector = "*" -> TRUE

\* document.querySelectorAll(selector): the matches in document order.
querySelectorAll(dom, selector) ==
  inDocumentOrder({i \in 1..Len(dom) : matches(dom, i, selector)})

\* element.querySelectorAll(selector): the matching descendants of element.
elementQuerySelectorAll(dom, element, selector) ==
  inDocumentOrder({i \in Descendants(dom, element) : matches(dom, i, selector)})

\* document.querySelector(selector): the first match, 0 for null.
querySelector(dom, selector) ==
  LET all == querySelectorAll(dom, selector)
  IN IF all = <<>> THEN 0 ELSE all[1]

\* element.parentElement.children
children(dom, parent) ==
  inDocumentOrder({j \in 1..Len(dom) : dom[j].parent = parent})

\* 0 for null
previousElementSibling(dom, i) ==
  LET before == {j \in 1..(i - 1) : dom[j].parent = dom[i].parent}
  IN IF before = {} THEN 0 ELSE SetMax(before)

nextElementSibling(dom, i) ==
  LET after == {j \in (i + 1)..Len(dom) : dom[j].parent = dom[i].parent}
  IN IF after = {} THEN 0 ELSE SetMin(after)


\* ------------------------------------------------------------------------
\* getSystemData and its helpers
\*
\* A loop of the code is a recursive operator over the elements left, with
\* the loop's variables as its last argument; one iteration is an operator
\* of its own.
\* ------------------------------------------------------------------------
txt_SHORTEST == <<"S","H","O","R","T","E","S","T">>

txt_SECURE == <<"S","E","C","U","R","E">>

txt_Settings == <<"S","e","t","t","i","n","g","s">>

txt_Route == <<"R","o","u","t","e">>

txt_route == <<"r","o","u","t","e">>

txt_from == <<"f","r","o","m">>

txt_jumps == <<"j","u","m","p","s">>

txt_Unknown == <<"U","n","k","n","o","w","n">>

\* a when it is not null, else b
orElse(a, b) == IF a # Null THEN a ELSE b

\* a || b || c
firstTruthy(a, b, c) == IF Truthy(a) THEN a ELSE IF Truthy(b) THEN b ELSE c

headerSelectors ==
  << "main header h6", "header h6", ".MuiPaper-root header h6", "[class*=header] h6" >>

\* text && text.length > 0 && text.length < 30 && !text.includes('\n')
looksLikeName(text) ==
  /\ text # <<>>
  /\ Len(text) > 0
  /\ Len(text) < 30
  /\ ~includes(text, <<"\n">>)

nameOrNull(text) == IF looksLikeName(text) THEN text ELSE Null

\* for (const element of elements): the first text that looks like a name.
RECURSIVE firstName(_, _)
firstName(dom, elements) ==
  IF elements = <<>> THEN Null
  ELSE orElse(nameOrNull(trim(textContent(dom, Head(elements)))),
              firstName(dom, Tail(elements)))

\* for (const selector of headerSelectors), from selector number k on.
RECURSIVE nameBySelectors(_, _)
nameBySelectors(dom, k) ==
  IF k > Len(headerSelectors) THEN Null
  ELSE orElse(firstName(dom, querySelectorAll(dom, headerSelectors[k])),
              nameBySelectors(dom, k + 1))

notUiChrome(text) ==
  /\ ~includes(text, txt_SHORTEST)
  /\ ~includes(text, txt_SECURE)
  /\ ~includes(text, txt_Settings)
  /\ ~includes(text, txt_Route)

\* A faulty variant: the fallback scan without the words it excludes.
headingUnfiltered(text) == IF looksLikeName(text) THEN text ELSE Null

headingOrNull(text) ==
  IF looksLikeName(text) /\ notUiChrome(text) THEN text ELSE Null

\* for (const h6 of allH6)
RECURSIVE firstHeading(_, _)
firstHeading(dom, allH6) ==
  IF allH6 = <<>> THEN Null
  ELSE orElse(headingOrNull(trim(textContent(dom, Head(allH6)))),
              firstHeading(dom, Tail(allH6)))

extractSystemName(dom) ==
  orElse(nameBySelectors(dom, 1), firstHeading(dom, querySelectorAll(dom, "h6")))

\* The classification so far and the strategies (1, 2, 3) that were run.
Unclassified == [securityRating |-> Null, connectionType |-> Null, strategies |-> <<>>]

ran(cur, strategy) == [cur EXCEPT !.strategies = Append(@, strategy)]

\* securityMatch / connectionMatch of a map node's text
fromNodeText(cur, nodeText) ==
  [cur EXCEPT !.securityRating = matchSecurity(nodeText),
              !.connectionType = matchConnection(nodeText)]

\* for (const node of mapNodes): the first node whose text contains the name
\* fills the fields, and the loop breaks.
RECURSIVE scanMapNodes(_, _, _, _)
scanMapNodes(dom, mapNodes, systemName, cur) ==
  IF mapNodes = <<>> THEN cur
  ELSE IF includes(textContent(dom, Head(mapNodes)), systemName)
  THEN fromNodeText(cur, textContent(dom, Head(mapNodes)))
  ELSE scanMapNodes(dom, Tail(mapNodes), systemName, cur)

strategy1(dom, systemName, cur) ==
  scanMapNodes(dom, querySelectorAll(dom, "[class*=node], [class*=system]"),
               systemName, ran(cur, 1))

\* One system-type element: a wormhole class, else a security rating.
fromSystemType(cur, text) ==
  IF matchConnection(text) # Null
  THEN [cur EXCEPT !.connectionType = matchConnection(text)]
  ELSE IF matchSecurity(text) # Null
  THEN [cur EXCEPT !.securityRating = matchSecurity(text)]
  ELSE cur

\* for (const element of systemTypeElements)
RECURSIVE scanSystemTypes(_, _, _)
scanSystemTypes(dom, elements, cur) ==
  IF elements = <<>> THEN cur
  ELSE scanSystemTypes(dom, Tail(elements),
         fromSystemType(cur, trim(textContent(dom, Head(elements)))))

\* if (!securityRating && !connectionType)
strategy2(dom, cur) ==
  IF ~Truthy(cur.securityRating) /\ ~Truthy(cur.connectionType)
  THEN scanSystemTypes(dom,
         querySelectorAll(dom, ".system-type, [class*=system-type]"), ran(cur, 2))
  ELSE cur

\* The header's text fills the fields still unset.
fromHeaderText(cur, headerText) ==
  [cur EXCEPT
     !.securityRating = IF ~Truthy(@) /\ matchSecurity(headerText) # Null
                        THEN matchSecurity(headerText) ELSE @,
     !.connectionType = IF ~Truthy(@) /\ matchConnection(headerText) # Null
                        THEN matchConnection(headerText) ELSE @]

\* if (headerArea)
fromHeaderArea(dom, headerArea, cur) ==
  IF headerArea # 0 THEN fromHeaderText(cur, textContent(dom, headerArea)) ELSE cur

\* if (!securityRating || !connectionType)
strategy3(dom, cur) ==
  IF ~Truthy(cur.securityRating) \/ ~Truthy(cur.connectionType)
  THEN fromHeaderArea(dom, querySelector(dom, "main header, header"), ran(cur, 3))
  ELSE cur

\* if (!securityRating) securityRating = 'Unknown'
withDefault(cur) ==
  [cur EXCEPT !.securityRating = IF ~Truthy(@) THEN txt_Unknown ELSE @]

\* extractSecurityAndConnection with the strategies it ran.
classify(dom, systemName) ==
  withDefault(strategy3(dom, strategy2(dom, strategy1(dom, systemName, Unclassified))))

withoutStrategies(cur) ==
  [securityRating |-> cur.securityRating, connectionType |-> cur.connectionType]

extractSecurityAndConnection(dom, systemName) ==
  withoutStrategies(classify(dom, systemName))

\* A faulty variant: only aria-selected marks a tab active.
isActiveByAriaOnly(dom, button) == attributeIs(dom, button, "aria-selected", "true")

isActive(dom, button) ==
  \/ attributeIs(dom, button, "aria-selected", "true")
  \/ classListContains(dom, button, cls_Mui_selected)
  \/ classListContains(dom, button, cls_active)
  \/ hasAttribute(dom, button, "data-selected")

\* text === 'SHORTEST' || text === 'SECURE', and isActive
activeLabel(dom, button, text) ==
  IF (text = txt_SHORTEST \/ text = txt_SECURE) /\ isActive(dom, button)
  THEN text ELSE Null

\* for (const button of tabButtons)
RECURSIVE firstActiveTab(_, _)
firstActiveTab(dom, tabButtons) ==
  IF tabButtons = <<>> THEN txt_SHORTEST
  ELSE orElse(activeLabel(dom, Head(tabButtons),
                toUpperCase(trim(textContent(dom, Head(tabButtons))))),
              firstActiveTab(dom, Tail(tabButtons)))

detectActiveTab(dom) ==
  firstActiveTab(dom, querySelectorAll(dom, "button, [role=tab]"))

NoDestination == [name |-> Null, jumps |-> Null]

\* One text element of a summary; cur is [hubName, jumps].
noteText(cur, text) ==
  IF ~parseInt(text).nan /\ Len(text) <= 3
  THEN [cur EXCEPT !.jumps = text]
  ELSE IF text # <<>> /\ Len(text) > 0 /\ Len(text) < 30 /\ isNaN(text)
  THEN IF /\ ~includes(text, txt_from)
          /\ ~includes(text, txt_jumps)
          /\ ~includes(toLowerCase(text), txt_route)
       THEN [cur EXCEPT !.hubName = text]
       ELSE cur
  ELSE cur

\* for (const textEl of textElements)
RECURSIVE scanTextElements(_, _, _)
scanTextElements(dom, textElements, cur) ==
  IF textElements = <<>> THEN cur
  ELSE scanTextElements(dom, Tail(textElements),
         noteText(cur, trim(textContent(dom, Head(textElements)))))

\* if (hubName && jumps) return { name, jumps }; return null
destinationOrNull(found) ==
  IF Truthy(found.hubName) /\ Truthy(found.jumps)
  THEN [name |-> found.hubName, jumps |-> found.jumps]
  ELSE NoDestination

extractDestinationFromElement(dom, element) ==
  destinationOrNull(
    scanTextElements(dom,
      elementQuerySelectorAll(dom, element, "p, span, [class*=Typography]"),
      [hubName |-> Null, jumps |-> Null]))

commonHubs ==
  << <<"J","i","t","a">>, <<"H","e","k">>, <<"A","m","a","r","r">>,
     <<"R","e","n","s">>, <<"D","o","d","i","x","i","e">>,
     <<"S","t","a","c","m","o","n">> >>

\* text when it parses as an integer (and, with short, is at most 3 long)
numberOrNull(text, short) ==
  IF ~parseInt(text).nan /\ (short => Len(text) <= 3) THEN text ELSE Null

\* The same of an element's trimmed text; element 0 is no element.
numberText(dom, element, short) ==
  IF element = 0 THEN Null
  ELSE numberOrNull(trim(textContent(dom, element)), short)

\* for (const child of parentChildren): the first short number, then break
RECURSIVE firstShortNumber(_, _)
firstShortNumber(dom, parentChildren) ==
  IF parentChildren = <<>> THEN Null
  ELSE orElse(numberText(dom, Head(parentChildren), TRUE),
              firstShortNumber(dom, Tail(parentChildren)))

\* "Look for a number nearby": the previous sibling, the next sibling, then
\* the parent's children.
nearbyJumps(dom, element) ==
  firstTruthy(numberText(dom, previousElementSibling(dom, element), FALSE),
              numberText(dom, nextElementSibling(dom, element), FALSE),
              firstShortNumber(dom, children(dom, dom[element].parent)))

hasName(destinations, name) ==
  \E k \in 1..Len(destinations) : destinations[k].name = name

\* One element of a container: for (const hub of commonHubs) if (text === hub)
noteElement(destinations, text, jumps) ==
  IF /\ \E h \in 1..Len(commonHubs) : text = commonHubs[h]
     /\ Truthy(jumps)
     /\ ~hasName(destinations, text)
  THEN Append(destinations, [name |-> text, jumps |-> jumps])
  ELSE destinations

\* for (const element of allElements)
RECURSIVE scanContainer(_, _, _)
scanContainer(dom, allElements, destinations) ==
  IF allElements = <<>> THEN destinations
  ELSE scanContainer(dom, Tail(allElements),
         noteElement(destinations, trim(textContent(dom, Head(allElements))),
                     nearbyJumps(dom, Head(allElements))))

extractAllDestinationsFromContainer(dom, container) ==
  scanContainer(dom, elementQuerySelectorAll(dom, container, "*"), <<>>)

\* if (destination) destinations.push(destination)
pushed(destinations, destination) ==
  IF destination # NoDestination THEN Append(destinations, destination)
  ELSE destinations

\* for (const summary of hubSummaries), for (const accordion of accordions)
RECURSIVE pushDestinations(_, _, _)
pushDestinations(dom, elements, destinations) ==
  IF elements = <<>> THEN destinations
  ELSE pushDestinations(dom, Tail(elements),
         pushed(destinations, extractDestinationFromElement(dom, Head(elements))))

isVisible(dom, panel) ==
  dom[panel].display # "none" /\ dom[panel].visibility # "hidden"

\* One panel: destinations.push(...panelDestinations) when it is visible.
pushedPanel(dom, panel, destinations) ==
  IF isVisible(dom, panel)
  THEN destinations \o extractAllDestinationsFromContainer(dom, panel)
  ELSE destinations

\* for (const panel of panels)
RECURSIVE pushPanels(_, _, _)
pushPanels(dom, panels, destinations) ==
  IF panels = <<>> THEN destinations
  ELSE pushPanels(dom, Tail(panels), pushedPanel(dom, Head(panels), destinations))

\* The destinations so far and the strategies ("A", "B", "C") that were run.
strategyA(dom) ==
  [destinations |->
     pushDestinations(dom,
       querySelectorAll(dom, ".route-hub-summary, [class*=route-hub-summary]"), <<>>),
   strategies |-> <<"A">>]

\* A faulty variant: the accordions are searched whatever Strategy A found.
strategyBAlways(dom, cur) ==
  [destinations |->
     pushDestinations(dom, querySelectorAll(dom, "[class*=MuiAccordion]"),
                      cur.destinations),
   strategies |-> Append(cur.strategies, "B")]

\* if (destinations.length === 0)
strategyB(dom, cur) ==
  IF Len(cur.destinations) = 0
  THEN [destinations |->
          pushDestinations(dom, querySelectorAll(dom, "[class*=MuiAccordion]"),
                           cur.destinations),
        strategies |-> Append(cur.strategies, "B")]
  ELSE cur

\* if (destinations.length === 0)
strategyC(dom, cur) ==
  IF Len(cur.destinations) = 0
  THEN [destinations |->
          pushPanels(dom, querySelectorAll(dom, "[role=tabpanel], [class*=panel]"),
                     cur.destinations),
        strategies |-> Append(cur.strategies, "C")]
  ELSE cur

\* extractDestinations with the strategies it ran.
collectDestinations(dom, activeTab) == strategyC(dom, strategyB(dom, strategyA(dom)))

destinationsOf(collected) == collected.destinations

extractDestinations(dom, activeTab) == destinationsOf(collectDestinations(dom, activeTab))

err_NoSystemSelected == <<"N","o"," ","s","y","s","t","e","m"," ","s","e","l","e","c","t","e","d",".">>

hdr_NoSystemSelected == <<"N","o"," ","s","y","s","t","e","m"," ","s","e","l","e","c","t","e","d">>

err_NoDestinations == <<"C","o","u","l","d"," ","n","o","t"," ","e","x","t","r","a","c","t"," ","d","e","s","t","i","n","a","t","i","o","n"," ","d","a","t","a","."," ","P","l","e","a","s","e"," ","e","n","s","u","r","e"," ","t","h","e"," ","t","a","b"," ","i","s"," ","e","x","p","a","n","d","e","d",".">>

CommaSpace == <<",", " ">>

\* A faulty variant: the connection type is left out of the failure header.
failureHeaderWithoutTag(systemName, securityRating, connectionType) ==
  systemName \o <<",", " ">> \o securityRating

\* `${systemName}, ${securityRating}, ${connectionType}` or
\* `${systemName}, ${securityRating}`
failureHeader(systemName, securityRating, connectionType) ==
  IF Truthy(connectionType)
  THEN systemName \o CommaSpace \o securityRating \o CommaSpace \o connectionType
  ELSE systemName \o CommaSpace \o securityRating

\* A faulty variant: the template with the tag is used also when there is none.
successHeaderEmptyTag(systemName, securityRating, connectionType) ==
  systemName \o <<",", " ">> \o securityRating \o <<",", " ">>
    \o (IF Truthy(connectionType) THEN connectionType ELSE <<>>) \o <<",">>

\* `${systemName}, ${securityRating}, ${connectionType},` or
\* `${systemName}, ${securityRating},`
successHeader(systemName, securityRating, connectionType) ==
  IF Truthy(connectionType)
  THEN systemName \o CommaSpace \o securityRating \o CommaSpace \o connectionType \o <<",">>
  ELSE systemName \o CommaSpace \o securityRating \o <<",">>

\* destinations.map(d => `${d.name} ${d.jumps}`).join(', ')
destinationText(destinations) ==
  join([k \in 1..Len(destinations) |->
          destinations[k].name \o <<" ">> \o destinations[k].jumps], CommaSpace)

AllHelpers ==
  << "extractSystemName", "extractSecurityAndConnection", "detectActiveTab",
     "extractDestinations" >>

\* A faulty variant: step 5 without the emptiness test of step 4.
formatResultUntested(systemName, sc, destinations) ==
  [result |-> [success |-> TRUE,
               error |-> Null,
               header |-> successHeader(systemName, sc.securityRating,
                                        sc.connectionType),
               destinations |-> destinationText(destinations)],
   calls |-> AllHelpers]

\* Steps 4 (the emptiness test) and 5: the result from the values of steps 1 to 4.
formatResult(systemName, sc, destinations) ==
  IF Len(destinations) = 0
  THEN [result |-> [success |-> FALSE,
                    error |-> err_NoDestinations,
                    header |-> failureHeader(systemName, sc.securityRating,
                                             sc.connectionType),
                    destinations |-> <<>>],
        calls |-> AllHelpers]
  ELSE [result |-> [success |-> TRUE,
                    error |-> Null,
                    header |-> successHeader(systemName, sc.securityRating,
                                             sc.connectionType),
                    destinations |-> destinationText(destinations)],
        calls |-> AllHelpers]

\* A faulty variant: no early return when there is no name.
afterSystemNameUnchecked(dom, systemName) ==
  formatResult(systemName,
               extractSecurityAndConnection(dom, systemName),
               extractDestinations(dom, detectActiveTab(dom)))

\* Steps 1 (the null test) to 4.
afterSystemName(dom, systemName) ==
  IF ~Truthy(systemName)
  THEN [result |-> [success |-> FALSE,
                    error |-> err_NoSystemSelected,
                    header |-> hdr_NoSystemSelected,
                    destinations |-> <<>>],
        calls |-> <<"extractSystemName">>]
  ELSE formatResult(systemName,
                    extractSecurityAndConnection(dom, systemName),
                    extractDestinations(dom, detectActiveTab(dom)))

\* The result of getSystemData and the helpers it called, in call order.
runPipeline(dom) == afterSystemName(dom, extractSystemName(dom))

resultOf(run) == run.result

getSystemData(dom) == resultOf(runPipeline(dom))

\* The catch block.  An exception is raised by the host (a DOM call that
\* throws), not by the code: a fault names the step in which it is raised
\* and its message.
err_Error == <<"E","r","r","o","r",":"," ">>

hdr_ErrorExtracting == <<"E","r","r","o","r"," ","e","x","t","r","a","c","t","i","n","g"," ","d","a","t","a">>

msg_Denied == <<"d","e","n","i","e","d">>

msg_NotAFunction == <<"x"," ","i","s"," ","n","o","t"," ","a"," ","f","u","n","c","t","i","o","n">>

Messages == {msg_Denied, msg_NotAFunction}

Steps ==
  { "extractSystemName", "extractSecurityAndConnection", "detectActiveTab",
    "extractDestinations", "format" }

NoFault == [step |-> "none", message |-> <<>>]

Faults == {NoFault} \cup [step : Steps, message : Messages]

\* A faulty variant: the message is returned without the 'Error: ' prefix.
caughtResultUnwrapped(message) ==
  [success |-> FALSE, error |-> message, header |-> hdr_ErrorExtracting,
   destinations |-> <<>>]

\* catch (error) { return { success: false, error: 'Error: ' + error.message,
\*                          header: 'Error extracting data', destinations: '' } }
caughtResult(message) ==
  [success |-> FALSE,
   error |-> err_Error \o message,
   header |-> hdr_ErrorExtracting,
   destinations |-> <<>>]

\* The step is executed on this page: a helper when it is called, the
\* formatting (steps 4's test and 5) when all four helpers were.
isReached(run, step) ==
  \/ \E k \in 1..Len(run.calls) : run.calls[k] = step
  \/ step = "format" /\ Len(run.calls) = Len(AllHelpers)

\* try { ... } catch (error) { ... } around a run in which fault is raised.
caughtOrResult(run, fault) ==
  IF fault # NoFault /\ isReached(run, fault.step)
  THEN caughtResult(fault.message)
  ELSE resultOf(run)

tryGetSystemData(dom, fault) == caughtOrResult(runPipeline(dom), fault)

\* ------------------------------------------------------------------------
\* Host pages: sequences of fragments (small subtrees) in document order
\* ------------------------------------------------------------------------
El(tag, class, attrs, parent, text) ==
  [tag |-> tag, class |-> class, attrs |-> attrs, parent |-> parent, text |-> text,
   display |-> "block", visibility |-> "visible"]

txt_Egmur == <<"E","g","m","u","r">>

txt_Jita == <<"J","i","t","a">>

txt_Hek == <<"H","e","k">>

txt_Amarr == <<"A","m","a","r","r">>

txt_Rens == <<"R","e","n","s">>

cls_system_node == <<"s","y","s","t","e","m","-","n","o","d","e">>

cls_MuiAccordion_root == <<"M","u","i","A","c","c","o","r","d","i","o","n","-","r","o","o","t">>

cls_MuiTypography_body1 == <<"M","u","i","T","y","p","o","g","r","a","p","h","y","-","b","o","d","y","1">>

cls_tab_panel == <<"t","a","b","-","p","a","n","e","l">>

\* <header><h6>Egmur</h6><span> 0.7 C4</span></header>
F_HeaderTagged ==
  << El("header", <<>>, {}, 0, <<>>),
     El("h6", <<>>, {}, 1, txt_Egmur),
     El("span", <<>>, {}, 1, <<" ","0",".","7"," ","C","4">>) >>

\* <main><header><h6> Egmur </h6><span>-0.3</span></header></main>
F_HeaderUntagged ==
  << El("main", <<>>, {}, 0, <<>>),
     El("header", <<>>, {}, 1, <<>>),
     El("h6", <<>>, {}, 2, <<" ">> \o txt_Egmur \o <<"\n">>),
     El("span", <<>>, {}, 2, <<"-","0",".","3">>) >>

\* <h6>Hek</h6>
F_BareHeading == << El("h6", <<>>, {}, 0, txt_Hek) >>

\* <div class="system-node">Egmur 0.5 C2</div>
F_MapNode ==
  << El("div", <<cls_system_node>>, {}, 0,
        txt_Egmur \o <<" ","0",".","5"," ","C","2">>) >>

\* <button aria-selected="true">Shortest</button>
F_TabShortestActive ==
  << El("button", <<>>, {<<"aria-selected", "true">>}, 0,
        <<"S","h","o","r","t","e","s","t">>) >>

\* <div role="tab" class="Mui-selected"> secure </div>
F_TabSecureActive ==
  << El("div", <<cls_Mui_selected>>, {<<"role", "tab">>}, 0,
        <<" ","s","e","c","u","r","e"," ">>) >>

\* <button class="tab active">SECURE</button>
F_TabSecureClassActive ==
  << El("button", << <<"t","a","b">>, cls_active >>, {}, 0, txt_SECURE) >>

\* <button data-selected="">SHORTEST</button>
F_TabShortestMarked ==
  << El("button", <<>>, {<<"data-selected", "">>}, 0, txt_SHORTEST) >>

\* <button aria-selected="false">SECURE</button>
F_TabSecureInactive ==
  << El("button", <<>>, {<<"aria-selected", "false">>}, 0, txt_SECURE) >>

\* <div class="route-hub-summary"><p>Jita</p><span>14</span></div>
F_SummaryJita14 ==
  << El("div", <<cls_route_hub_summary>>, {}, 0, <<>>),
     El("p", <<>>, {}, 1, txt_Jita),
     El("span", <<>>, {}, 1, <<"1","4">>) >>

\* <div class="route-hub-summary"><div class="MuiTypography-body1">Jita</div>
\*   <span>16</span></div>
F_SummaryJita16 ==
  << El("div", <<cls_route_hub_summary>>, {}, 0, <<>>),
     El("div", <<cls_MuiTypography_body1>>, {}, 1, txt_Jita),
     El("span", <<>>, {}, 1, <<"1","6">>) >>

\* <div class="route-hub-summary"><span>5</span><span>Hek</span></div>
F_SummaryHek5 ==
  << El("div", <<cls_route_hub_summary>>, {}, 0, <<>>),
     El("span", <<>>, {}, 1, <<"5">>),
     El("span", <<>>, {}, 1, txt_Hek) >>

\* <div class="MuiAccordion-root"><p>Amarr</p><span>21</span></div>
F_AccordionAmarr21 ==
  << El("div", <<cls_MuiAccordion_root>>, {}, 0, <<>>),
     El("p", <<>>, {}, 1, txt_Amarr),
     El("span", <<>>, {}, 1, <<"2","1">>) >>

\* <div role="tabpanel"><div><b>Jita</b><b>14</b></div></div>
F_PanelJita14 ==
  << El("div", <<>>, {<<"role", "tabpanel">>}, 0, <<>>),
     El("div", <<>>, {}, 1, <<>>),
     El("b", <<>>, {}, 2, txt_Jita),
     El("b", <<>>, {}, 2, <<"1","4">>) >>

\* <div class="tab-panel"><b>9</b><b>Jita</b><b>Rens</b></div>
F_PanelJita9Rens9 ==
  << El("div", <<cls_tab_panel>>, {}, 0, <<>>),
     El("b", <<>>, {}, 1, <<"9">>),
     El("b", <<>>, {}, 1, txt_Jita),
     El("b", <<>>, {}, 1, txt_Rens) >>

\* <div role="tabpanel" style="display: none"><b>Hek</b><b>7</b></div>
F_PanelHiddenHek7 ==
  << [El("div", <<>>, {<<"role", "tabpanel">>}, 0, <<>>) EXCEPT !.display = "none"],
     El("b", <<>>, {}, 1, txt_Hek),
     El("b", <<>>, {}, 1, <<"7">>) >>

\* <main><header><h6>Amarr</h6></header></main>
F_MainHeaderAmarr ==
  << El("main", <<>>, {}, 0, <<>>),
     El("header", <<>>, {}, 1, <<>>),
     El("h6", <<>>, {}, 2, txt_Amarr) >>

\* <div class="page-header"><h6>Jita</h6></div>
F_ClassHeaderJita ==
  << El("div", << <<"p","a","g","e","-","h","e","a","d","e","r">> >>, {}, 0, <<>>),
     El("h6", <<>>, {}, 1, txt_Jita) >>

\* <header><h6>Route Settings</h6></header>
F_HeaderSettings ==
  << El("header", <<>>, {}, 0, <<>>),
     El("h6", <<>>, {}, 1, txt_Route \o <<" ">> \o txt_Settings) >>

\* <h6>Route</h6>
F_BareHeadingRoute == << El("h6", <<>>, {}, 0, txt_Route) >>

\* <header><h6>Rens(line break)Hek</h6></header>
F_HeaderTwoLines ==
  << El("header", <<>>, {}, 0, <<>>),
     El("h6", <<>>, {}, 1, txt_Rens \o <<"\n">> \o txt_Hek) >>

\* <header><h6> (30 characters) </h6></header>
F_HeaderLong ==
  << El("header", <<>>, {}, 0, <<>>),
     El("h6", <<>>, {}, 1, <<" ">> \o [k \in 1..30 |-> "x"] \o <<" ">>) >>

\* <div class="system-node">Egmur 2.5 AU</div>
F_MapNodeDistance ==
  << El("div", <<cls_system_node>>, {}, 0,
        txt_Egmur \o <<" ","2",".","5"," ","A","U">>) >>

\* <span class="system-type">C3</span>
F_SystemTypeC3 == << El("span", <<cls_system_type>>, {}, 0, <<"C","3">>) >>

\* <span class="system-type"> 0.9</span>
F_SystemTypeRating ==
  << El("span", <<cls_system_type>>, {}, 0, <<" ","0",".","9">>) >>

\* <div role="tabpanel" style="display: none">
\*   <div class="route-hub-summary"><span>Rens</span><span>3</span></div></div>
F_PanelHiddenSummaryRens3 ==
  << [El("div", <<>>, {<<"role", "tabpanel">>}, 0, <<>>) EXCEPT !.display = "none"],
     El("div", <<cls_route_hub_summary>>, {}, 1, <<>>),
     El("span", <<>>, {}, 2, txt_Rens),
     El("span", <<>>, {}, 2, <<"3">>) >>

\* <div class="panels"><div role="tabpanel" style="visibility: hidden">
\*   <b>Amarr</b><b>8</b></div></div>
F_PanelsHiddenAmarr8 ==
  << El("div", << <<"p","a","n","e","l","s">> >>, {}, 0, <<>>),
     [El("div", <<>>, {<<"role", "tabpanel">>}, 1, <<>>) EXCEPT !.visibility = "hidden"],
     El("b", <<>>, {}, 2, txt_Amarr),
     El("b", <<>>, {}, 2, <<"8">>) >>

\* <div class="route-hub-summary"><span>Amarr</span><span>5 j</span></div>
F_SummaryAmarr5j ==
  << El("div", <<cls_route_hub_summary>>, {}, 0, <<>>),
     El("span", <<>>, {}, 1, txt_Amarr),
     El("span", <<>>, {}, 1, <<"5"," ","j">>) >>

\* <div class="tab-panel"><b>Hek</b><b>14 jumps from Jita</b></div>
F_PanelHekNote ==
  << El("div", <<cls_tab_panel>>, {}, 0, <<>>),
     El("b", <<>>, {}, 1, txt_Hek),
     El("b", <<>>, {}, 1, <<"1","4"," ">> \o txt_jumps \o <<" ">> \o txt_from
                               \o <<" ">> \o txt_Jita) >>

Fragments ==
  << F_HeaderTagged, F_HeaderUntagged, F_BareHeading, F_MapNode,
     F_TabShortestActive, F_TabSecureActive, F_TabSecureClassActive,
     F_TabShortestMarked, F_TabSecureInactive,
     F_SummaryJita14, F_SummaryJita16, F_SummaryHek5, F_AccordionAmarr21,
     F_PanelJita14, F_PanelJita9Rens9, F_PanelHiddenHek7 >>

\* The fragment placed after `before` elements: parents are shifted, 0 stays
\* <body>.
Shifted(fragment, before) ==
  [k \in 1..Len(fragment) |->
     [fragment[k] EXCEPT !.parent = IF @ = 0 THEN 0 ELSE @ + before]]

RECURSIVE Placed(_)
Placed(fragments) ==
  IF fragments = <<>> THEN <<>>
  ELSE Placed(SubSeq(fragments, 1, Len(fragments) - 1))
         \o Shifted(fragments[Len(fragments)],
                    Len(Placed(SubSeq(fragments, 1, Len(fragments) - 1))))

RECURSIVE ConcatText(_, _)
ConcatText(elements, idx) ==
  IF idx = <<>> THEN <<>>
  ELSE elements[Head(idx)].text \o ConcatText(elements, Tail(idx))

\* The elements with their textContent property.
Rendered(elements) ==
  [i \in 1..Len(elements) |->
     [tag |-> elements[i].tag,
      class |-> elements[i].class,
      attrs |-> elements[i].attrs,
      parent |-> elements[i].parent,
      text |-> elements[i].text,
      display |-> elements[i].display,
      visibility |-> elements[i].visibility,
      textContent |->
        ConcatText(elements, inDocumentOrder({i} \cup Descendants(elements, i)))]]

PageOf(fragments) == Rendered(Placed(fragments))

\* The pages of at most MaxFragments fragments of a palette.
PagesFrom(palette) ==
  {PageOf([k \in DOMAIN fl |-> palette[fl[k]]]) :
     fl \in UNION {[1..n -> 1..Len(palette)] : n \in 0..MaxFragments}}

FragmentLists ==
  UNION {[1..n -> 1..Len(Fragments)] : n \in 0..MaxFragments}

Pages == {PageOf([k \in DOMAIN fl |-> Fragments[fl[k]]]) : fl \in FragmentLists}


\* ------------------------------------------------------------------------
\* State
\* ------------------------------------------------------------------------
VARIABLES
  dom,                 \* the host page the popup is opened on
  ret,                 \* the last helper call on dom: [fn, arg, value]
  scriptDone,          \* the executeScript callback has run
  headerData,          \* innerText of #headerData
  number,              \* innerText of #number
  copyDisabled,        \* copyButton.disabled
  discordDisabled,     \* discordButton.disabled
  webhookUrl,          \* webhookUrlInput.value
  storedWebhookUrl,    \* localStorage 'webhookUrl'
  isSendingToDiscord,
  lastRequestId,
  pending,             \* the delivery calls in flight
  alerts,              \* how often each alert was shown
  clipboard,           \* the last copy: [text, extracted]
  notificationShown,   \* #copyNotification has class "show"
  hideTimers,          \* setTimeout callbacks not yet run
  sendClicks,          \* click events dispatched on the Discord button
  copyClicks,          \* click events dispatched on the copy button
  acceptedClicks,      \* send clicks that found the guard idle and a URL
  fetchCalls,          \* fetch calls made by sendToDiscord
  lastReport           \* how the last finished delivery call ended

display == <<headerData, number, copyDisabled, discordDisabled>>

popupVars ==
  <<scriptDone, headerData, number, copyDisabled, discordDisabled, webhookUrl,
    storedWebhookUrl, isSendingToDiscord, lastRequestId, pending, alerts,
    clipboard, notificationShown, hideTimers, sendClicks, copyClicks,
    acceptedClicks, fetchCalls, lastReport>>

vars == <<dom, ret, popupVars>>

NoCall == [fn |-> "none", arg |-> <<>>, value |-> <<>>]

NoReport == [reported |-> FALSE]

AlertEnterUrl == "Please enter a Discord Webhook URL first!"

AlertFailed == "Failed to send to Discord. Check console for details."

url_Blank == <<" ">>

url_Hook == <<"h","t","t","p","s",":","/","/","d","/","w">>

WebhookUrls == {<<>>, url_Blank, url_Hook}

\* The popup as DOMContentLoaded leaves it.  popup.html decides whether the
\* two buttons start enabled; both are allowed.
PopupInit ==
  /\ scriptDone = FALSE
  /\ headerData = <<>>
  /\ number = <<>>
  /\ copyDisabled \in BOOLEAN
  /\ discordDisabled = copyDisabled
  /\ storedWebhookUrl \in WebhookUrls
  /\ webhookUrl = storedWebhookUrl
  /\ isSendingToDiscord = FALSE
  /\ lastRequestId = 0
  /\ pending = {}
  /\ alerts = [m \in {AlertEnterUrl, AlertFailed} |-> 0]
  /\ clipboard = [text |-> <<>>, extracted |-> FALSE]
  /\ notificationShown = FALSE
  /\ hideTimers = 0
  /\ sendClicks = 0
  /\ copyClicks = 0
  /\ acceptedClicks = 0
  /\ fetchCalls = 0
  /\ lastReport = NoReport

\* ------------------------------------------------------------------------
\* The helpers applied to every page: one call on the page as it is found
\* ------------------------------------------------------------------------
ExtractInit ==
  /\ dom \in Pages
  /\ ret = NoCall
  /\ PopupInit
  /\ copyDisabled = TRUE
  /\ storedWebhookUrl = <<>>

CallGetSystemData ==
  /\ ret = NoCall
  /\ ret' = [fn |-> "getSystemData", arg |-> <<>>, value |-> runPipeline(dom)]
  /\ UNCHANGED <<dom, popupVars>>

CallDetectActiveTab ==
  /\ ret = NoCall
  /\ ret' = [fn |-> "detectActiveTab", arg |-> <<>>, value |-> detectActiveTab(dom)]
  /\ UNCHANGED <<dom, popupVars>>

CallExtractDestinations ==
  /\ ret = NoCall
  /\ \E activeTab \in {txt_SHORTEST, txt_SECURE} :
       ret' = [fn |-> "extractDestinations", arg |-> activeTab,
               value |-> collectDestinations(dom, activeTab)]
  /\ UNCHANGED <<dom, popupVars>>

ExtractNext ==
  \/ CallGetSystemData
  \/ CallDetectActiveTab
  \/ CallExtractDestinations

ExtractSpec == ExtractInit /\ [][ExtractNext]_vars


\* ------------------------------------------------------------------------
\* The popup
\* ------------------------------------------------------------------------
\* The pages the popup is opened on: nothing selected; a name without
\* destinations; destinations with and without a connection tag; an
\* unrated system whose destinations come from a panel; a system rated by
\* its map node whose destination comes from an accordion.
PopupPages ==
  { <<>>,
    PageOf(<<F_HeaderTagged>>),
    PageOf(<<F_HeaderTagged, F_SummaryJita14, F_SummaryHek5>>),
    PageOf(<<F_HeaderUntagged, F_SummaryJita14>>),
    PageOf(<<F_BareHeading, F_PanelJita9Rens9>>),
    PageOf(<<F_HeaderUntagged, F_MapNode, F_AccordionAmarr21>>) }

err_prefix == <<"E","r","r","o","r",":"," ">>

msg_lastError == <<"C","a","n","n","o","t"," ","a","c","c","e","s","s">>

\* A faulty variant: only the copy button is disabled.
disableCopyOnly == copyDisabled' = TRUE /\ discordDisabled' = discordDisabled

disableButtons == copyDisabled' = TRUE /\ discordDisabled' = TRUE

enableButtons == copyDisabled' = FALSE /\ discordDisabled' = FALSE

\* results[0].result when it is missing
NoData == [undefined |-> TRUE]

\* if (data && data.success) ... else ...
showData(data) ==
  IF data # NoData /\ data.success
  THEN /\ headerData' = data.header
       /\ IF Truthy(data.destinations) /\ trim(data.destinations) # <<>>
          THEN number' = data.destinations /\ enableButtons
          ELSE number' = <<>> /\ disableButtons
  ELSE /\ headerData' = IF data # NoData /\ Truthy(data.error)
                        THEN data.error
                        ELSE err_NoSystemSelected
       /\ number' = <<>>
       /\ disableButtons

\* results[0].result for an outcome of the injected getSystemData: its
\* result, the result of its catch block, or nothing.
scrapedData(outcome) ==
  IF outcome = "result" THEN getSystemData(dom)
  ELSE IF outcome = "caught" THEN caughtResult(msg_Denied)
  ELSE NoData

\* The callback of chrome.scripting.executeScript.  outcome: "lastError"
\* (the page could not be read), "result" (getSystemData's result),
\* "caught" (getSystemData caught an exception) or "noResult"
\* (results[0].result is missing).
ExecuteScriptCallback(outcome) ==
  /\ ~scriptDone
  /\ scriptDone' = TRUE
  /\ IF outcome = "lastError"
     THEN /\ headerData' = err_prefix \o msg_lastError
          /\ disableButtons
          /\ UNCHANGED number
     ELSE showData(scrapedData(outcome))
  /\ UNCHANGED <<dom, ret, webhookUrl, storedWebhookUrl, isSendingToDiscord,
                 lastRequestId, pending, alerts, clipboard, notificationShown,
                 hideTimers, sendClicks, copyClicks, acceptedClicks, fetchCalls,
                 lastReport>>

\* The 'change' listener of the webhook input, with the edit that fires it.
ChangeWebhookUrl(value) ==
  /\ value # webhookUrl
  /\ webhookUrl' = value
  /\ storedWebhookUrl' = value
  /\ UNCHANGED <<dom, ret, scriptDone, headerData, number, copyDisabled,
                 discordDisabled, isSendingToDiscord, lastRequestId, pending,
                 alerts, clipboard, notificationShown, hideTimers, sendClicks,
                 copyClicks, acceptedClicks, fetchCalls, lastReport>>

\* numbers ? `${header} ${numbers}` : header
fullText(header, numbers) ==
  IF Truthy(numbers) THEN header \o <<" ">> \o numbers ELSE header

\* A faulty variant: the guard never holds a click back.
neverAlreadySending(sending) == FALSE

\* if (isSendingToDiscord) return;
alreadySending(sending) == sending

\* !webhookUrl || webhookUrl.trim() === ''
\* A faulty variant: a URL of white space passes.
webhookUrlMissing(url) == ~Truthy(url)

noWebhookUrl(url) == ~Truthy(url) \/ trim(url) = <<>>

\* sendToDiscord up to its fetch call: one more call is in flight.
sendToDiscord(data, url, requestId) ==
  /\ pending' = pending \cup
       {[id |-> requestId, content |-> data, url |-> url, stage |-> "fetch",
         body |-> "unread", shownAtClick |-> display, extracted |-> scriptDone]}
  /\ fetchCalls' = fetchCalls + 1

\* A click on the Discord button; a disabled button dispatches none.
\* lastRequestId = Date.now() is the number of the click.
SendClick ==
  /\ ~discordDisabled
  /\ sendClicks + copyClicks < MaxClicks
  /\ sendClicks' = sendClicks + 1
  /\ acceptedClicks' =
       IF ~isSendingToDiscord /\ trim(webhookUrl) # <<>>
       THEN acceptedClicks + 1 ELSE acceptedClicks
  /\ IF alreadySending(isSendingToDiscord)
     THEN UNCHANGED <<isSendingToDiscord, lastRequestId, pending, alerts, fetchCalls>>
     ELSE /\ lastRequestId' = sendClicks + 1
          /\ IF noWebhookUrl(webhookUrl)
             THEN /\ alerts' = [alerts EXCEPT ![AlertEnterUrl] = @ + 1]
                  /\ isSendingToDiscord' = FALSE
                  /\ UNCHANGED <<pending, fetchCalls>>
             ELSE /\ isSendingToDiscord' = TRUE
                  /\ sendToDiscord(fullText(headerData, number), webhookUrl,
                                   sendClicks + 1)
                  /\ UNCHANGED alerts
  /\ UNCHANGED <<dom, ret, scriptDone, headerData, number, copyDisabled,
                 discordDisabled, webhookUrl, storedWebhookUrl, clipboard,
                 notificationShown, hideTimers, copyClicks, lastReport>>

\* What the server may answer.  A 204 and a content-length of 0 come with an
\* empty body; a positive content-length with a body.
Responses ==
  {[kind |-> "networkError", status |-> 0, contentLength |-> "absent", body |-> "empty"]}
  \cup
  {r \in [kind : {"response"}, status : {204, 200, 404},
          contentLength : {"absent", "0", "n"}, body : {"empty", "json", "text"}] :
     /\ r.status = 204 => (r.body = "empty" /\ r.contentLength # "n")
     /\ r.contentLength = "0" => r.body = "empty"
     /\ r.contentLength = "n" => r.body # "empty"}

responseOk(r) == r.status >= 200 /\ r.status <= 299

\* sendToDiscord's handlers on the fetch promise: "rejected", "fulfilled",
\* or "json" when response.json() was called and is still reading.
afterFetch(r) ==
  IF r.kind = "networkError" THEN "rejected"
  ELSE IF ~responseOk(r) THEN "rejected"
  ELSE IF r.status = 204 \/ r.contentLength = "0" THEN "fulfilled"
  ELSE "json"

\* response.json(): the body is read (which the network may break) and
\* parsed.
afterJson(body, readOk) ==
  IF readOk /\ body = "json" THEN "fulfilled" ELSE "rejected"

\* .catch(error => { alert(...) }): the alert count after the chain settled.
alertsAfter(outcome) ==
  IF outcome = "rejected"
  THEN [alerts EXCEPT ![AlertFailed] = @ + 1]
  ELSE alerts

\* A faulty variant: the flag is reset in .then only, so a failed call leaves it set.
flagResetOnSuccessOnly(outcome) == outcome = "rejected"

\* .finally(() => { isSendingToDiscord = false })
flagAfterFinally(outcome) == FALSE

\* A faulty variant: the .catch handler clears the destinations and disables the
\* buttons.
displayClearedOnFailure(outcome) ==
  IF outcome = "rejected" THEN <<headerData, <<>>, TRUE, TRUE>> ELSE display

\* What the .then/.catch handlers of the click handler leave displayed.
displayAfterHandlers(outcome) == display

\* The click handler's .then/.catch/.finally on a settled sendToDiscord.
Finish(call, outcome, transportFailed, okStatus) ==
  /\ pending' = pending \ {call}
  /\ alerts' = alertsAfter(outcome)
  /\ isSendingToDiscord' = flagAfterFinally(outcome)
  /\ headerData' = displayAfterHandlers(outcome)[1]
  /\ number' = displayAfterHandlers(outcome)[2]
  /\ copyDisabled' = displayAfterHandlers(outcome)[3]
  /\ discordDisabled' = displayAfterHandlers(outcome)[4]
  /\ lastReport' = [reported |-> TRUE,
                    transportFailed |-> transportFailed,
                    okStatus |-> okStatus,
                    alerted |-> alerts'[AlertFailed] > alerts[AlertFailed],
                    before |-> call.shownAtClick,
                    after |-> displayAfterHandlers(outcome),
                    extracted |-> call.extracted]
  /\ UNCHANGED <<dom, ret, scriptDone, webhookUrl, storedWebhookUrl, lastRequestId,
                 clipboard, notificationShown, hideTimers, sendClicks, copyClicks,
                 acceptedClicks, fetchCalls>>

\* The fetch of a call in flight settles with response r.
FetchSettles(call, r) ==
  /\ call \in pending
  /\ call.stage = "fetch"
  /\ IF afterFetch(r) = "json"
     THEN /\ pending' = (pending \ {call})
                          \cup {[call EXCEPT !.stage = "json", !.body = r.body]}
          /\ UNCHANGED <<dom, ret, scriptDone, headerData, number, copyDisabled,
                         discordDisabled, webhookUrl, storedWebhookUrl,
                         isSendingToDiscord, lastRequestId, alerts, clipboard,
                         notificationShown, hideTimers, sendClicks, copyClicks,
                         acceptedClicks, fetchCalls, lastReport>>
     ELSE Finish(call, afterFetch(r), r.kind = "networkError",
                 r.kind = "response" /\ responseOk(r))

\* response.json() of a call in flight settles.
JsonSettles(call, readOk) ==
  /\ call \in pending
  /\ call.stage = "json"
  /\ Finish(call, afterJson(call.body, readOk), ~readOk, TRUE)

\* document.execCommand('copy') of a textarea holding text, the notification
\* and its 2 s timer.
copyToClipboard(text) ==
  /\ clipboard' = [text |-> text, extracted |-> scriptDone]
  /\ notificationShown' = TRUE
  /\ hideTimers' = hideTimers + 1

CopyClick ==
  /\ ~copyDisabled
  /\ sendClicks + copyClicks < MaxClicks
  /\ copyClicks' = copyClicks + 1
  /\ copyToClipboard(fullText(headerData, number))
  /\ UNCHANGED <<dom, ret, scriptDone, headerData, number, copyDisabled,
                 discordDisabled, webhookUrl, storedWebhookUrl, isSendingToDiscord,
                 lastRequestId, pending, alerts, sendClicks, acceptedClicks,
                 fetchCalls, lastReport>>

\* setTimeout(() => notification.classList.remove('show'), 2000)
HideNotification ==
  /\ hideTimers > 0
  /\ hideTimers' = hideTimers - 1
  /\ notificationShown' = FALSE
  /\ UNCHANGED <<dom, ret, scriptDone, headerData, number, copyDisabled,
                 discordDisabled, webhookUrl, storedWebhookUrl, isSendingToDiscord,
                 lastRequestId, pending, alerts, clipboard, sendClicks, copyClicks,
                 acceptedClicks, fetchCalls, lastReport>>

Outcomes == {"lastError", "result", "caught", "noResult"}

Init ==
  /\ dom \in PopupPages
  /\ ret = NoCall
  /\ PopupInit

Next ==
  \/ \E outcome \in Outcomes : ExecuteScriptCallback(outcome)
  \/ \E value \in WebhookUrls : ChangeWebhookUrl(value)
  \/ SendClick
  \/ \E call \in pending, r \in Responses : FetchSettles(call, r)
  \/ \E call \in pending, readOk \in BOOLEAN : JsonSettles(call, readOk)
  \/ CopyClick
  \/ HideNotification

Spec == Init /\ [][Next]_vars

\* Every delivery call in flight eventually settles.
FairSpec ==
  /\ Spec
  /\ WF_vars(\E call \in pending, r \in Responses : FetchSettles(call, r))
  /\ WF_vars(\E call \in pending, readOk \in BOOLEAN : JsonSettles(call, readOk))


\* ------------------------------------------------------------------------
\* getSystemData with its catch block, called once and called again
\* ------------------------------------------------------------------------
PipelineFragments ==
  << F_HeaderTagged, F_HeaderUntagged, F_BareHeading, F_MapNode, F_TabSecureActive,
     F_SummaryJita14, F_SummaryHek5, F_AccordionAmarr21, F_PanelJita9Rens9,
     F_PanelHiddenHek7 >>

PipelineInit ==
  /\ dom \in PagesFrom(PipelineFragments)
  /\ ret = NoCall
  /\ PopupInit
  /\ copyDisabled = TRUE
  /\ storedWebhookUrl = <<>>

RunGetSystemData(fault) ==
  /\ ret = NoCall
  /\ ret' = [fn |-> "getSystemData", arg |-> fault,
             value |-> tryGetSystemData(dom, fault)]
  /\ UNCHANGED <<dom, popupVars>>

\* A faulty variant: the destinations of the invocation before are kept.
invokeKeepingDestinations(page) ==
  IF ret.fn = "getSystemData" /\ ret.value.success
  THEN [getSystemData(page) EXCEPT
          !.destinations = ret.value.destinations \o CommaSpace \o @]
  ELSE getSystemData(page)

\* An invocation of the injected function: every variable of getSystemData
\* and of its helpers is local and initialised in the invocation.
invoke(page) == getSystemData(page)

\* A second invocation on the page as it was.
RunGetSystemDataAgain ==
  /\ ret.fn = "getSystemData"
  /\ ret.arg = NoFault
  /\ ret' = [fn |-> "getSystemData twice", arg |-> ret.value,
             value |-> invoke(dom)]
  /\ UNCHANGED <<dom, popupVars>>

PipelineNext ==
  \/ \E fault \in Faults : RunGetSystemData(fault)
  \/ RunGetSystemDataAgain

PipelineSpec == PipelineInit /\ [][PipelineNext]_vars

\* ------------------------------------------------------------------------
\* The name and the classification, on pages of headers and map elements
\* ------------------------------------------------------------------------
NameFragments ==
  << F_HeaderTagged, F_HeaderUntagged, F_BareHeading, F_MainHeaderAmarr,
     F_ClassHeaderJita, F_HeaderSettings, F_BareHeadingRoute, F_HeaderTwoLines,
     F_HeaderLong, F_MapNode, F_MapNodeDistance, F_SystemTypeC3,
     F_SystemTypeRating >>

ClassifyInit ==
  /\ dom \in PagesFrom(NameFragments)
  /\ ret = NoCall
  /\ PopupInit
  /\ copyDisabled = TRUE
  /\ storedWebhookUrl = <<>>

CallExtractSystemName ==
  /\ ret = NoCall
  /\ ret' = [fn |-> "extractSystemName", arg |-> <<>>,
             value |-> extractSystemName(dom)]
  /\ UNCHANGED <<dom, popupVars>>

\* Step 2 of getSystemData: called with the name step 1 found.
CallExtractSecurityAndConnection ==
  /\ ret = NoCall
  /\ Truthy(extractSystemName(dom))
  /\ ret' = [fn |-> "extractSecurityAndConnection",
             arg |-> extractSystemName(dom),
             value |-> classify(dom, extractSystemName(dom))]
  /\ UNCHANGED <<dom, popupVars>>

ClassifyNext ==
  \/ CallExtractSystemName
  \/ CallExtractSecurityAndConnection

ClassifySpec == ClassifyInit /\ [][ClassifyNext]_vars

\* ------------------------------------------------------------------------
\* The destinations, on pages of tabs, summaries, accordions and panels
\* ------------------------------------------------------------------------
DestinationFragments ==
  << F_TabShortestActive, F_TabSecureActive, F_SummaryJita14, F_SummaryHek5,
     F_AccordionAmarr21, F_PanelJita14, F_PanelJita9Rens9, F_PanelHiddenHek7,
     F_PanelHiddenSummaryRens3, F_PanelsHiddenAmarr8, F_SummaryAmarr5j,
     F_PanelHekNote >>

DestinationInit ==
  /\ dom \in PagesFrom(DestinationFragments)
  /\ ret = NoCall
  /\ PopupInit
  /\ copyDisabled = TRUE
  /\ storedWebhookUrl = <<>>

\* Steps 3 and 4 of getSystemData: extractDestinations is called with the
\* tab detectActiveTab reported.
CallExtractDestinationsOfActiveTab ==
  /\ ret = NoCall
  /\ ret' = [fn |-> "extractDestinations", arg |-> detectActiveTab(dom),
             value |-> collectDestinations(dom, detectActiveTab(dom))]
  /\ UNCHANGED <<dom, popupVars>>

DestinationNext == CallExtractDestinationsOfActiveTab

DestinationSpec == DestinationInit /\ [][DestinationNext]_vars

\* ------------------------------------------------------------------------
\* Properties
\* ------------------------------------------------------------------------

\* C1: at most one delivery call is outstanding; the number of fetch calls
\* equals the number of send clicks that found the guard idle and a
\* non-blank webhook URL; and a send click that arrives while
\* isSendingToDiscord is true changes nothing but the click count: no call,
\* no alert, nothing left queued, the flag and the outstanding call as before.
C1_SingleDelivery ==
  /\ [](Cardinality(pending) <= 1 /\ fetchCalls = acceptedClicks)
  /\ [][(sendClicks' = sendClicks + 1 /\ isSendingToDiscord)
          => UNCHANGED <<dom, ret, scriptDone, headerData, number, copyDisabled,
                         discordDisabled, webhookUrl, storedWebhookUrl,
                         isSendingToDiscord, lastRequestId, pending, alerts,
                         clipboard, notificationShown, hideTimers, copyClicks,
                         acceptedClicks, fetchCalls, lastReport>>]_vars

\* A click was ignored while a call is in flight.
C1_ClickIgnoredInFlight ==
  /\ isSendingToDiscord
  /\ Cardinality(pending) = 1
  /\ fetchCalls = 1
  /\ sendClicks > acceptedClicks + alerts[AlertEnterUrl]

\* C2: the flag is set only while a delivery call is outstanding, so it is
\* false again as soon as the call has completed, however it ended; and,
\* every call in flight settling eventually, a set flag is always reset.
C2_GuardReleased ==
  /\ [](isSendingToDiscord => pending # {})
  /\ isSendingToDiscord ~> ~isSendingToDiscord

\* A call failed, the flag was reset and a later click started a new call.
C2_SentAgainAfterFailure ==
  /\ lastReport.reported
  /\ lastReport.alerted
  /\ isSendingToDiscord
  /\ fetchCalls >= 2

deliveryFailed(report) == report.transportFailed \/ ~report.okStatus

\* C3: when a delivery call that was started from a displayed extraction
\* result ends in a non-2xx status or a transport failure, the header text,
\* the destination text and the disabled state of both buttons are, after
\* the failure was reported, what they were before the send click.
C3_FailureKeepsDisplay ==
  (lastReport.reported /\ lastReport.extracted /\ deliveryFailed(lastReport))
    => lastReport.after = lastReport.before

\* A call sent from a displayed result came back with a non-2xx status.
C3_FailedAfterExtraction ==
  /\ lastReport.reported
  /\ lastReport.extracted
  /\ ~lastReport.transportFailed
  /\ ~lastReport.okStatus
  /\ lastReport.alerted
  /\ lastReport.before[2] # <<>>

\* C4: the 'Failed to send to Discord' alert is shown exactly when the call
\* returned a non-success status or failed in transport.
C4_AlertIffFailure ==
  lastReport.reported => (lastReport.alerted <=> deliveryFailed(lastReport))

\* The line the claims describe, built segment by segment: the name, the
\* rating, the tag when there is one, then every destination pair.
RECURSIVE WithPairs(_, _)
WithPairs(line, destinations) ==
  IF destinations = <<>> THEN line
  ELSE WithPairs(line \o <<",", " ">> \o Head(destinations).name \o <<" ">>
                      \o Head(destinations).jumps,
                 Tail(destinations))

HeaderSegments(systemName, sc) ==
  systemName \o <<",", " ">> \o sc.securityRating
    \o (IF sc.connectionType = Null THEN <<>> ELSE <<",", " ">> \o sc.connectionType)

CanonicalLine(page) ==
  WithPairs(HeaderSegments(extractSystemName(page),
                           extractSecurityAndConnection(page, extractSystemName(page))),
            extractDestinations(page, detectActiveTab(page)))

\* C5: the text copied or sent from a displayed successful extraction is
\* '<Name>, <SecurityRating>[, <ConnectionTag>], <Hub1> <Jumps1>, ...': one
\* tag segment after the rating when a tag was detected and none otherwise,
\* the pairs in discovery order, nothing after the last pair.
C5_SharedLineForm ==
  /\ clipboard.extracted => clipboard.text = CanonicalLine(dom)
  /\ \A call \in pending : call.extracted => call.content = CanonicalLine(dom)

\* An untagged system's line was copied and is being sent.
C5_UntaggedLineShared ==
  /\ clipboard.extracted
  /\ \E call \in pending : call.extracted
  /\ extractSecurityAndConnection(dom, extractSystemName(dom)).connectionType = Null
  /\ Len(extractDestinations(dom, detectActiveTab(dom))) >= 1

NoDestinationsCase ==
  /\ ret.fn = "getSystemData"
  /\ extractSystemName(dom) # Null
  /\ extractDestinations(dom, detectActiveTab(dom)) = <<>>

claim_NoDestinationsError == <<"C","o","u","l","d"," ","n","o","t"," ","e","x","t","r","a","c","t"," ","d","e","s","t","i","n","a","t","i","o","n"," ","d","a","t","a","."," ","P","l","e","a","s","e"," ","e","n","s","u","r","e"," ","t","h","e"," ","t","a","b"," ","i","s"," ","e","x","p","a","n","d","e","d",".">>

NoDestinationsResult(header) ==
  [success |-> FALSE, error |-> claim_NoDestinationsError, header |-> header,
   destinations |-> <<>>]

\* C6 as amended: with a name but no destination, getSystemData returns
\* success=false, the 'Could not extract destination data...' error, an
\* empty body and the header '<name>, <securityRating>, <connectionTag>'
\* (or '<name>, <securityRating>'): the success header without its
\* trailing comma.
C6_NoDestinationsHeader ==
  NoDestinationsCase =>
    ret.value.result =
      NoDestinationsResult(
        HeaderSegments(extractSystemName(dom),
                       extractSecurityAndConnection(dom, extractSystemName(dom))))

\* getSystemData found a tagged system and no destination.
C6_TaggedWithoutDestinations ==
  /\ NoDestinationsCase
  /\ extractSecurityAndConnection(dom, extractSystemName(dom)).connectionType # Null

\* C6 as claimed: in that case the header is built exactly as in the success
\* case, with the trailing comma retained.
C6_HeaderKeepsTrailingComma ==
  NoDestinationsCase =>
    ret.value.result =
      NoDestinationsResult(
        HeaderSegments(extractSystemName(dom),
                       extractSecurityAndConnection(dom, extractSystemName(dom)))
          \o <<",">>)

NoNameCase == ret.fn = "getSystemData" /\ extractSystemName(dom) = Null

claim_NoSystemError == <<"N","o"," ","s","y","s","t","e","m"," ","s","e","l","e","c","t","e","d",".">>

\* C7 as amended: without a name, getSystemData returns success=false,
\* error 'No system selected.', an empty body and the header 'No system
\* selected', which is the error text without its final full stop; and it
\* called none of the other three helpers.
C7_NoNameResult ==
  NoNameCase =>
    /\ ret.value.result =
         [success |-> FALSE, error |-> claim_NoSystemError,
          header |-> SubSeq(claim_NoSystemError, 1, Len(claim_NoSystemError) - 1),
          destinations |-> <<>>]
    /\ ret.value.calls = <<"extractSystemName">>

\* getSystemData found no name on a page that has destinations.
C7_NoNameButDestinations ==
  /\ NoNameCase
  /\ Len(extractDestinations(dom, detectActiveTab(dom))) >= 1

\* C7 as claimed: the header is a copy of the error text.
C7_HeaderCopiesError ==
  NoNameCase =>
    /\ ret.value.result =
         [success |-> FALSE, error |-> claim_NoSystemError,
          header |-> claim_NoSystemError, destinations |-> <<>>]
    /\ ret.value.calls = <<"extractSystemName">>

\* C8: no two destinations returned by extractDestinations have the same
\* name.
C8_UniqueNames ==
  ret.fn = "extractDestinations" =>
    \A j, k \in 1..Len(ret.value.destinations) :
      j # k => ret.value.destinations[j].name # ret.value.destinations[k].name

\* What each of the first two strategies finds on its own.
FoundBySummaries(page) ==
  pushDestinations(page,
    querySelectorAll(page, ".route-hub-summary, [class*=route-hub-summary]"), <<>>)

FoundByAccordions(page) ==
  pushDestinations(page, querySelectorAll(page, "[class*=MuiAccordion]"), <<>>)

Ran(strategy) == \E k \in 1..Len(ret.value.strategies) : ret.value.strategies[k] = strategy

\* C9: Strategy B is run exactly when Strategy A found nothing, Strategy C
\* exactly when A and B both found nothing; when A finds a destination,
\* neither B nor C is run and the result is A's entries.
C9_FallbackOrder ==
  ret.fn = "extractDestinations" =>
    /\ Ran("A")
    /\ Ran("B") <=> FoundBySummaries(dom) = <<>>
    /\ Ran("C") <=> (FoundBySummaries(dom) = <<>> /\ FoundByAccordions(dom) = <<>>)
    /\ FoundBySummaries(dom) # <<>> =>
         /\ ret.value.strategies = <<"A">>
         /\ ret.value.destinations = FoundBySummaries(dom)

\* Strategy A found a destination on a page where an accordion and a
\* visible panel hold one too.
C9_OnlyARanAmongThree ==
  /\ ret.fn = "extractDestinations"
  /\ FoundBySummaries(dom) # <<>>
  /\ FoundByAccordions(dom) # <<>>
  /\ \E panel \in 1..Len(dom) :
       /\ matches(dom, panel, "[role=tabpanel], [class*=panel]")
       /\ isVisible(dom, panel)
       /\ extractAllDestinationsFromContainer(dom, panel) # <<>>

TabLabel(page, i) == toUpperCase(trim(textContent(page, i)))

\* The button or tab-role elements with one of the two labels and at least
\* one active indicator.
ActiveTabs(page) ==
  {i \in 1..Len(page) :
     /\ page[i].tag = "button" \/ <<"role", "tab">> \in page[i].attrs
     /\ TabLabel(page, i) \in {txt_SHORTEST, txt_SECURE}
     /\ \/ <<"aria-selected", "true">> \in page[i].attrs
        \/ \E k \in 1..Len(page[i].class) : page[i].class[k] = cls_Mui_selected
        \/ \E k \in 1..Len(page[i].class) : page[i].class[k] = cls_active
        \/ \E a \in page[i].attrs : a[1] = "data-selected"}

\* C10: detectActiveTab returns 'SHORTEST' or 'SECURE': the label of the
\* first active tab in document order, and 'SHORTEST' when there is none.
C10_ActiveTab ==
  ret.fn = "detectActiveTab" =>
    /\ ret.value \in {txt_SHORTEST, txt_SECURE}
    /\ ret.value = IF ActiveTabs(dom) = {} THEN txt_SHORTEST
                   ELSE TabLabel(dom, SetMin(ActiveTabs(dom)))

\* SECURE was returned for a tab marked by a class only, after an inactive
\* tab and before an active SHORTEST tab.
C10_SecondOfThreeTabs ==
  /\ ret.fn = "detectActiveTab"
  /\ ret.value = txt_SECURE
  /\ Cardinality(ActiveTabs(dom)) = 2
  /\ \E i \in 1..Len(dom) : i < SetMin(ActiveTabs(dom)) /\ TabLabel(dom, i) = txt_SECURE
  /\ ~(<<"aria-selected", "true">> \in dom[SetMin(ActiveTabs(dom))].attrs)
  /\ TabLabel(dom, SetMax(ActiveTabs(dom))) = txt_SHORTEST

InUnitRange(rating) ==
  /\ rating # <<>>
  /\ LET digits == IF rating[1] = "-" THEN Tail(rating) ELSE rating
     IN /\ Len(digits) = 3
        /\ digits[2] = "."
        /\ \/ digits[1] = "0" /\ digits[3] \in Digits
           \/ digits[1] = "1" /\ digits[3] = "0"

\* C12: the securityRating extractSecurityAndConnection returns is
\* 'Unknown' or a decimal text whose value lies in [-1.0, 1.0].
C12_RatingInRange ==
  ret.fn = "extractSecurityAndConnection" =>
    \/ ret.value.securityRating = txt_Unknown
    \/ InUnitRange(ret.value.securityRating)

\* C13: every result of getSystemData, on the success path, the two
\* failure paths and the catch path, has a non-empty header; with success
\* it has a non-empty destinations text and no error; without success it
\* has an empty destinations text and an error text.
C13_ResultShape ==
  ret.fn = "getSystemData" =>
    /\ ret.value.header # Null
    /\ ret.value.header # <<>>
    /\ ret.value.success =>
         /\ ret.value.destinations # <<>>
         /\ ret.value.error = Null
    /\ ~ret.value.success =>
         /\ ret.value.destinations = <<>>
         /\ ret.value.error # Null
         /\ ret.value.error # <<>>

\* getSystemData found a name and no destination, no exception raised.
C13_FailureWithName ==
  /\ ret.fn = "getSystemData"
  /\ ret.arg = NoFault
  /\ ~ret.value.success
  /\ Truthy(extractSystemName(dom))

InHiddenPanel(page, i) ==
  \E a \in Ancestors(page, i) \cup {i} :
    /\ matches(page, a, "[role=tabpanel], [class*=panel]")
    /\ page[a].display = "none" \/ page[a].visibility = "hidden"

\* The trimmed texts of the elements outside the panels that are not
\* displayed.
DisplayedTexts(page) ==
  {trim(textContent(page, i)) : i \in {j \in 1..Len(page) : ~InHiddenPanel(page, j)}}

\* C15: every destination extractDestinations returns, called with the tab
\* detectActiveTab reported, is named by an element outside the panels that
\* are not displayed: an entry that exists only in the panel of the
\* inactive tab is not returned.
C15_ActiveTabOnly ==
  ret.fn = "extractDestinations" =>
    \A k \in 1..Len(ret.value.destinations) :
      ret.value.destinations[k].name \in DisplayedTexts(dom)

\* The jump counts the claim allows: one to three digits.
IsShortNumber(text) ==
  /\ Len(text) >= 1
  /\ Len(text) <= 3
  /\ \A k \in 1..Len(text) : text[k] \in Digits

\* C16: the jumps of every destination extractDestinations returns is a
\* text of one to three digits and nothing else.
C16_JumpsDigitsOnly ==
  ret.fn = "extractDestinations" =>
    \A k \in 1..Len(ret.value.destinations) :
      IsShortNumber(ret.value.destinations[k].jumps)

\* At least one of the two fields is not filled.
someUnset(cur) == ~Truthy(cur.securityRating) \/ ~Truthy(cur.connectionType)

\* A field filled in cur has the same value in final.
keptFrom(cur, final) ==
  /\ Truthy(cur.securityRating) => final.securityRating = cur.securityRating
  /\ Truthy(cur.connectionType) => final.connectionType = cur.connectionType

attempted(strategy) ==
  \E k \in 1..Len(ret.value.strategies) : ret.value.strategies[k] = strategy

\* C17: extractSecurityAndConnection attempts strategy 2 exactly when
\* strategy 1 left a field unset and strategy 3 exactly when a field is
\* still unset after that, and what an earlier strategy filled is what is
\* returned.
C17_StrategyOrder ==
  ret.fn = "extractSecurityAndConnection" =>
    /\ attempted(1)
    /\ attempted(2) <=> someUnset(strategy1(dom, ret.arg, Unclassified))
    /\ attempted(3) <=>
         someUnset(strategy2(dom, strategy1(dom, ret.arg, Unclassified)))
    /\ keptFrom(strategy1(dom, ret.arg, Unclassified), ret.value)
    /\ keptFrom(strategy2(dom, strategy1(dom, ret.arg, Unclassified)), ret.value)

\* The trimmed text of an element.
trimmedText(page, i) == trim(textContent(page, i))

\* A text of 1 to 29 characters without a line break.
IsNameText(text) ==
  /\ Len(text) >= 1
  /\ Len(text) <= 29
  /\ \A k \in 1..Len(text) : text[k] # "\n"

\* The elements selector number k matches whose trimmed text qualifies.
QualifyingBy(page, k) ==
  {i \in 1..Len(page) :
     matches(page, i, headerSelectors[k]) /\ IsNameText(trimmedText(page, i))}

\* The selectors with a qualifying element.
QualifyingSelectors(page) ==
  {k \in 1..Len(headerSelectors) : QualifyingBy(page, k) # {}}

\* The h6 elements whose trimmed text qualifies and holds none of the
\* excluded words.
QualifyingHeadings(page) ==
  {i \in 1..Len(page) :
     /\ page[i].tag = "h6"
     /\ IsNameText(trimmedText(page, i))
     /\ \A word \in {txt_SHORTEST, txt_SECURE, txt_Settings, txt_Route} :
          ~includes(trimmedText(page, i), word)}

\* The text the claim names for a page.
NameExpected(page) ==
  IF QualifyingSelectors(page) # {}
  THEN trimmedText(page, SetMin(QualifyingBy(page, SetMin(QualifyingSelectors(page)))))
  ELSE IF QualifyingHeadings(page) # {}
  THEN trimmedText(page, SetMin(QualifyingHeadings(page)))
  ELSE Null

\* C18: extractSystemName returns null or a trimmed text of 1 to 29
\* characters without a line break: the text of the first qualifying
\* element of the first selector that has one; when no selector has one,
\* the first qualifying h6 without an excluded word; null when there is
\* none.  The excluded words play no part in the scan by selectors.
C18_NameChosen ==
  ret.fn = "extractSystemName" =>
    /\ ret.value = Null
         \/ (IsNameText(ret.value) /\ trim(ret.value) = ret.value)
    /\ ret.value = NameExpected(dom)

\* The fallback scan passed over a heading with an excluded word and
\* returned a later one.
C18_FallbackSkippedHeading ==
  /\ ret.fn = "extractSystemName"
  /\ QualifyingSelectors(dom) = {}
  /\ Truthy(ret.value)
  /\ \E i \in 1..Len(dom) :
       /\ dom[i].tag = "h6"
       /\ IsNameText(trimmedText(dom, i))
       /\ i < SetMin(QualifyingHeadings(dom))

\* The outcome is a result with success = true and destinations that are
\* not blank.
extractionSucceeded(outcome) ==
  /\ outcome = "result"
  /\ getSystemData(dom).success
  /\ trim(getSystemData(dom).destinations) # <<>>

C20_RejectedClickReleasesGuard ==
  /\ [][SendClick /\ ~isSendingToDiscord /\ trim(webhookUrl) = <<>> =>
          /\ pending' = pending
          /\ fetchCalls' = fetchCalls
          /\ alerts' = [alerts EXCEPT ![AlertEnterUrl] = @ + 1]
          /\ ~isSendingToDiscord']_vars
  /\ [][SendClick /\ ~isSendingToDiscord /\ trim(webhookUrl) # <<>> =>
          /\ fetchCalls' = fetchCalls + 1
          /\ isSendingToDiscord'
          /\ alerts' = alerts]_vars

\* A click was rejected for its blank URL and the click after it, with a
\* URL entered, started the delivery that is now in flight.
C20_AcceptedAfterRejected ==
  /\ sendClicks = 2
  /\ alerts[AlertEnterUrl] = 1
  /\ fetchCalls = 1
  /\ isSendingToDiscord
  /\ pending # {}

=============================================================================
